---- MODULE Spec2Model ----
(***************************************************************************)
(* Field arithmetic over GF(32) and the bech32 / codex32 checksum engine   *)
(* of volvelle-wasm (src/volvelle-wasm/src/fe.rs).                         *)
(*                                                                         *)
(* An Fe is modelled by the u8 it wraps, a char by its code point, an      *)
(* FePoly by the sequence of its coefficients (Vec<Fe>, index 0 first).    *)
(***************************************************************************)
EXTENDS Integers, Sequences, FiniteSets

VARIABLES
    fe,      \* the Fe held by the caller of the element interface
    out,     \* outcome of the last element operation
    x, y, z, \* three field elements, operands of add and mul
    r,       \* result of the last add / mul on them
    poly,    \* the FePoly handed to polymod
    bad,     \* a copy of poly with one coefficient replaced
    res,     \* outcome of the last reduction of poly
    resBad,  \* outcome of the last reduction of bad
    hrp,     \* the bytes of the human-readable prefix (a &str)
    hres     \* outcome of the last HRP residue call

vars == <<fe, out, x, y, z, r, poly, bad, res, resBad, hrp, hres>>

----------------------------------------------------------------------------
(* Machine types *)

\* The values of a u8.
U8 == 0..255

\* The range the specification gives a field element.
FeRange == 0..31

\* u8 exclusive or (the ^ operator), bit by bit.
RECURSIVE XorBits(_, _)
XorBits(a, b) ==
    IF a = 0 THEN b
    ELSE IF b = 0 THEN a
    ELSE ((a + b) % 2) + 2 * XorBits(a \div 2, b \div 2)

\* XorBits tabulated over all pairs of u8 values.
XorTable == [a \in U8 |-> [b \in U8 |-> XorBits(a, b)]]

Xor(a, b) == XorTable[a][b]

----------------------------------------------------------------------------
(* Constants of fe.rs *)

\* const ZERO: Fe = Fe(0)
ZERO == 0

\* b"QPZRY9X8GF2TVDW0S3JNS4KHCE6MUA7L", byte by byte (index 0 first).
BECH32_ALPHABET ==
    << 81, 80, 90, 82, 89, 57, 88, 56, 71, 70, 50, 84, 86, 68, 87, 48,
       83, 51, 74, 78, 83, 52, 75, 72, 67, 69, 54, 77, 85, 65, 55, 76 >>

CODEX32_POLYMOD == << 25, 27, 17, 8, 0, 25, 25, 25, 31, 27, 24, 16, 16 >>

BECH32_POLYMOD == << 29, 22, 20, 21, 29, 18 >>

----------------------------------------------------------------------------
(* Fe *)

FeZero == 0

FeOne == 1

\* Fe::from_bin stores its argument as it is.
FromBin(n) == n

\* The arms of the match in TryFrom<char>, in order: <<pattern, value>>.
TryFromArms ==
    << <<81, 0>>,  <<80, 1>>,  <<90, 2>>,  <<82, 3>>,  <<89, 4>>,  <<57, 5>>,
       <<88, 6>>,  <<56, 7>>,  <<71, 8>>,  <<70, 9>>,  <<50, 10>>, <<84, 11>>,
       <<86, 12>>, <<68, 13>>, <<87, 14>>, <<48, 15>>, <<83, 16>>, <<51, 17>>,
       <<74, 18>>, <<78, 19>>, <<53, 20>>, <<52, 21>>, <<75, 22>>, <<72, 23>>,
       <<67, 24>>, <<69, 25>>, <<54, 26>>, <<77, 27>>, <<85, 28>>, <<65, 29>>,
       <<55, 30>>, <<76, 31>> >>

\* Outcomes of the element operations.
NoOut == [kind |-> "none", ch |-> 0, val |-> 0]
OkFe(ch, v) == [kind |-> "ok", ch |-> ch, val |-> v]
\* Err(format!("invalid bech32 character {}", x))
ErrInvalid(ch) == [kind |-> "invalid bech32 character", ch |-> ch, val |-> 0]
CharOf(c, v) == [kind |-> "char", ch |-> c, val |-> v]
\* an index out of the bounds of the table aborts the call
Panic(v) == [kind |-> "panic", ch |-> 0, val |-> v]

\* Fe::try_from(ch): the first arm whose pattern is ch, else the error.
TryFrom(ch) ==
    IF \E i \in 1..Len(TryFromArms) : TryFromArms[i][1] = ch
    THEN LET i == CHOOSE i \in 1..Len(TryFromArms) :
                      /\ TryFromArms[i][1] = ch
                      /\ \A j \in 1..(i - 1) : TryFromArms[j][1] # ch
         IN  OkFe(ch, TryFromArms[i][2])
    ELSE ErrInvalid(ch)

\* char::from(fe): BECH32_ALPHABET[fe.0 as usize].into()
IntoChar(v) ==
    IF v < Len(BECH32_ALPHABET)
    THEN CharOf(BECH32_ALPHABET[v + 1], v)
    ELSE Panic(v)

\* Add for Fe: Fe(self.0 ^ other.0)
Add(a, b) == Xor(a, b)

\* A loop that folds bit 5 back with 32 + 4 + 1, the mask of another
\* irreducible polynomial of degree 5.
RECURSIVE MulLoopOtherMask(_, _, _)
MulLoopOtherMask(self, fe2, ret) ==
    IF self > 0
    THEN LET ret1 == IF self % 2 = 1 THEN Xor(ret, fe2) ELSE ret
             shl  == (fe2 * 2) % 256
             fe2n == IF (shl \div 32) % 2 = 1 THEN Xor(shl, 32 + 4 + 1) ELSE shl
         IN  MulLoopOtherMask(self \div 2, fe2n, ret1)
    ELSE ret

\* The while loop of Mul for Fe, on u8 values.
RECURSIVE MulLoop(_, _, _)
MulLoop(self, fe2, ret) ==
    IF self > 0
    THEN LET ret1 == IF self % 2 = 1 THEN Xor(ret, fe2) ELSE ret
             shl  == (fe2 * 2) % 256
             fe2n == IF (shl \div 32) % 2 = 1 THEN Xor(shl, 32 + 8 + 1) ELSE shl
         IN  MulLoop(self \div 2, fe2n, ret1)
    ELSE ret

\* Mul for Fe (self * &other): the loop from ret = 0, tabulated over all
\* pairs of u8 values.
MulTable == [a \in U8 |-> [b \in U8 |-> MulLoop(a, b, 0)]]

Mul(a, b) == MulTable[a][b]

----------------------------------------------------------------------------
(* FePoly *)

\* FePoly::normalize: Vec::retain with the seen_nonzero flag, front to back.
RECURSIVE Retain(_, _)
Retain(s, seen_nonzero) ==
    IF s = << >> THEN << >>
    ELSE LET seen == seen_nonzero \/ Head(s) # 0
         IN  (IF seen THEN << Head(s) >> ELSE << >>) \o Retain(Tail(s), seen)

\* A normalize that drops every zero coefficient, not only the leading ones.
NormalizeDropsAllZeros(s) == SelectSeq(s, LAMBDA e : e # 0)

Normalize(s) == Retain(s, FALSE)

\* A loop body whose feedback loop stops one short, i in 0..modulus.len() - 1:
\* the last coefficient of the generator is never applied.
PolymodStepNoLastTap(ret, ch, modulus) ==
    LET c13     == ret[1]
        shifted == [i \in 1..13 |-> IF i <= Len(modulus) - 1 THEN ret[i + 1] ELSE ret[i]]
        placed  == [shifted EXCEPT ![13] = ch]
    IN  [i \in 1..13 |->
            IF i <= Len(modulus) - 1 THEN Add(placed[i], Mul(c13, modulus[i]))
            ELSE placed[i]]

\* A loop body whose shift stops one short, i in 0..modulus.len() - 2: the
\* coefficient placed last never moves up.
PolymodStepShortShift(ret, ch, modulus) ==
    LET c13     == ret[1]
        shifted == [i \in 1..13 |-> IF i <= Len(modulus) - 2 THEN ret[i + 1] ELSE ret[i]]
        placed  == [shifted EXCEPT ![13] = ch]
    IN  [i \in 1..13 |->
            IF i <= Len(modulus) THEN Add(placed[i], Mul(c13, modulus[i]))
            ELSE placed[i]]

\* One pass of the body of the for loop of FePoly::polymod over `ret`, a
\* vector of 13 elements, for the input coefficient ch.
PolymodStep(ret, ch, modulus) ==
    LET c13     == ret[1]
        shifted == [i \in 1..13 |-> IF i <= Len(modulus) - 1 THEN ret[i + 1] ELSE ret[i]]
        placed  == [shifted EXCEPT ![13] = ch]
    IN  [i \in 1..13 |->
            IF i <= Len(modulus) THEN Add(placed[i], Mul(c13, modulus[i]))
            ELSE placed[i]]

\* The for loop of FePoly::polymod from the k-th coefficient of the input on.
RECURSIVE PolymodLoop(_, _, _, _)
PolymodLoop(ret, input, k, modulus) ==
    IF k > Len(input) THEN ret
    ELSE PolymodLoop(PolymodStep(ret, input[k], modulus), input, k + 1, modulus)

\* The accumulator of FePoly::polymod when its loop ends: vec![Fe(0); 13]
\* run over the whole input.
PolymodAcc(input, modulus) ==
    PolymodLoop([i \in 1..13 |-> 0], input, 1, modulus)

\* FePoly::polymod: the accumulator when the loop ends (acc) and the
\* polynomial returned, which is the accumulator normalized (ret).
PolymodRun(input, modulus) ==
    LET ret == PolymodAcc(input, modulus)
    IN  [acc |-> ret, ret |-> Normalize(ret)]

Polymod(input, modulus) == PolymodRun(input, modulus).ret

Codex32Polymod(input) == Polymod(input, CODEX32_POLYMOD)

Bech32Polymod(input) == Polymod(input, BECH32_POLYMOD)

\* An expansion that leaves out the zero between the high and the low bits.
HrpPolyNoSeparator(s, modulus) ==
    << 1 >>
    \o [k \in 1..Len(s) |-> s[k] \div 32]
    \o [k \in 1..Len(s) |-> s[k] % 32]
    \o [k \in 1..Len(modulus) |-> 0]

\* The vector poly_1 that FePoly::hrp_residue builds from the bytes of s.
HrpPoly(s, modulus) ==
    << 1 >>
    \o [k \in 1..Len(s) |-> s[k] \div 32]
    \o << 0 >>
    \o [k \in 1..Len(s) |-> s[k] % 32]
    \o [k \in 1..Len(modulus) |-> 0]

\* FePoly::hrp_residue
HrpResidue(s, modulus) == Polymod(HrpPoly(s, modulus), modulus)

Codex32HrpResidue(s) == HrpResidue(s, CODEX32_POLYMOD)

Bech32HrpResidue(s) == HrpResidue(s, BECH32_POLYMOD)

\* Outcomes of the reductions: the generator used, the accumulator when the
\* loop ended and the polynomial returned.
NoRes == [gen |-> "none", acc |-> << >>, ret |-> << >>]
Reduced(gen, modulus, input) ==
    LET run == PolymodRun(input, modulus)
    IN  [gen |-> gen, acc |-> run.acc, ret |-> run.ret]

\* Outcomes of the HRP residue calls: the generator used, the expanded
\* vector poly_1 and the polynomial returned.
NoHres == [gen |-> "none", poly_1 |-> << >>, ret |-> << >>]
HrpReduced(gen, modulus, s) ==
    [gen |-> gen, poly_1 |-> HrpPoly(s, modulus), ret |-> HrpResidue(s, modulus)]

----------------------------------------------------------------------------
(* Bounds and input sets *)

\* Code points handed to Fe::try_from: '0' (48) up to MaxChar, 'Z' (90):
\* the digits, the upper-case letters and the punctuation between them.
MaxChar == 90
Chars == 48..MaxChar

\* Largest argument of Fe::from_bin.
MaxBin == 63
BinArgs == 0..MaxBin

\* Longest input of polymod, and the most nonzero coefficients in it.
MaxLen == 15
MaxNonzero == 2
\* Coefficient values the inputs of polymod are built from.
PolySyms == {0, 1, 16, 31}

\* Longest payload in front of the 13 checksum symbols of a valid stream,
\* and the symbols payloads are built from.
MaxPayload == 2
PayloadSyms == {0, 1, 16, 31}

\* Most bytes in a human-readable prefix, and the characters it is built
\* from, each as its UTF-8 bytes: NUL, '1', 'a', 'm', 's', DEL, U+00E9.
MaxHrpBytes == 3
HrpChars == { <<0>>, <<49>>, <<97>>, <<109>>, <<115>>, <<127>>, <<195, 169>> }

NonzeroCount(s) == Cardinality({k \in 1..Len(s) : s[k] # 0})

RECURSIVE SeqsUpTo(_, _)
SeqsUpTo(S, n) ==
    IF n = 0 THEN { << >> }
    ELSE LET shorter == SeqsUpTo(S, n - 1)
         IN  shorter \cup { Append(s, e) : s \in shorter, e \in S }

\* A payload followed by the 13 symbols that bring the codex32 residue of
\* the whole stream to [1].
WithChecksum(m) ==
    LET acc == PolymodAcc(m \o [i \in 1..13 |-> 0], CODEX32_POLYMOD)
    IN  m \o [i \in 1..13 |-> IF i = 13 THEN Add(acc[i], 1) ELSE acc[i]]

\* The streams of residue [1] the corruption starts from: the payloads with
\* their checksum, and the streams of at most 13 symbols that are zeros
\* followed by a one.
ValidStreams ==
    { WithChecksum(m) : m \in SeqsUpTo(PayloadSyms, MaxPayload) }
    \cup { [i \in 1..n |-> IF i = n THEN 1 ELSE 0] : n \in 1..13 }

----------------------------------------------------------------------------
(* The element interface: constructors, conversions, add and mul *)

feVars == <<fe, out>>
fieldVars == <<x, y, z, r>>
polyVars == <<poly, res>>
corruptVars == <<bad, resBad>>
hrpVars == <<hrp, hres>>

IdleFe == fe = ZERO /\ out = NoOut
IdleField == x = 0 /\ y = 0 /\ z = 0 /\ r = [op |-> "none", val |-> 0]
IdlePoly == poly = << >> /\ res = NoRes
IdleCorrupt == bad = << >> /\ resBad = NoRes
IdleHrp == hrp = << >> /\ hres = NoHres

InitFe == IdleFe /\ IdleField /\ IdlePoly /\ IdleCorrupt /\ IdleHrp

CallZero ==
    /\ fe' = FeZero
    /\ out' = NoOut
    /\ UNCHANGED <<fieldVars, polyVars, corruptVars, hrpVars>>

CallOne ==
    /\ fe' = FeOne
    /\ out' = NoOut
    /\ UNCHANGED <<fieldVars, polyVars, corruptVars, hrpVars>>

CallFromBin ==
    \E n \in BinArgs :
        /\ fe' = FromBin(n)
        /\ out' = NoOut
        /\ UNCHANGED <<fieldVars, polyVars, corruptVars, hrpVars>>

CallTryFrom ==
    \E ch \in Chars :
        /\ out' = TryFrom(ch)
        /\ fe' = IF out'.kind = "ok" THEN out'.val ELSE fe
        /\ UNCHANGED <<fieldVars, polyVars, corruptVars, hrpVars>>

\* The other operand is any element the constructors give.
CallAdd ==
    \E n \in BinArgs :
        /\ fe' = Add(fe, FromBin(n))
        /\ out' = NoOut
        /\ UNCHANGED <<fieldVars, polyVars, corruptVars, hrpVars>>

CallMul ==
    \E n \in BinArgs :
        /\ fe' = Mul(fe, FromBin(n))
        /\ out' = NoOut
        /\ UNCHANGED <<fieldVars, polyVars, corruptVars, hrpVars>>

CallIntoChar ==
    /\ out' = IntoChar(fe)
    /\ UNCHANGED <<fe, fieldVars, polyVars, corruptVars, hrpVars>>

NextFe ==
    \/ CallZero
    \/ CallOne
    \/ CallFromBin
    \/ CallTryFrom
    \/ CallAdd
    \/ CallMul
    \/ CallIntoChar

SpecFe == InitFe /\ [][NextFe]_vars

----------------------------------------------------------------------------
(* The field laws: add and mul on elements of the field *)

InitField ==
    /\ x \in FeRange /\ y \in FeRange /\ z \in FeRange
    /\ r = [op |-> "none", val |-> 0]
    /\ IdleFe /\ IdlePoly /\ IdleCorrupt /\ IdleHrp

AddXY ==
    /\ r' = [op |-> "add", val |-> Add(x, y)]
    /\ UNCHANGED <<x, y, z, feVars, polyVars, corruptVars, hrpVars>>

MulXY ==
    /\ r' = [op |-> "mul", val |-> Mul(x, y)]
    /\ UNCHANGED <<x, y, z, feVars, polyVars, corruptVars, hrpVars>>

NextField == AddXY \/ MulXY

SpecField == InitField /\ [][NextField]_vars

----------------------------------------------------------------------------
(* Reduction of a polynomial built coefficient by coefficient *)

Init == IdlePoly /\ IdleFe /\ IdleField /\ IdleCorrupt /\ IdleHrp

PushCoefficient ==
    \E sym \in PolySyms :
        /\ res = NoRes
        /\ Len(poly) < MaxLen
        /\ sym # 0 => NonzeroCount(poly) < MaxNonzero
        /\ poly' = Append(poly, sym)
        /\ UNCHANGED <<res, feVars, fieldVars, corruptVars, hrpVars>>

CallCodex32Polymod ==
    /\ res = NoRes
    /\ res' = Reduced("codex32", CODEX32_POLYMOD, poly)
    /\ UNCHANGED <<poly, feVars, fieldVars, corruptVars, hrpVars>>

CallBech32Polymod ==
    /\ res = NoRes
    /\ res' = Reduced("bech32", BECH32_POLYMOD, poly)
    /\ UNCHANGED <<poly, feVars, fieldVars, corruptVars, hrpVars>>

Next ==
    \/ PushCoefficient
    \/ CallCodex32Polymod
    \/ CallBech32Polymod

Spec == Init /\ [][Next]_vars

----------------------------------------------------------------------------
(* A valid codex32 stream, one symbol of it replaced, both reduced *)

InitCorrupt ==
    /\ poly \in ValidStreams
    /\ res = NoRes
    /\ IdleCorrupt /\ IdleFe /\ IdleField /\ IdleHrp

CorruptSymbol ==
    \E k \in 1..Len(poly), v \in FeRange :
        /\ bad = << >>
        /\ v # poly[k]
        /\ bad' = [poly EXCEPT ![k] = v]
        /\ UNCHANGED <<poly, res, resBad, feVars, fieldVars, hrpVars>>

ReduceBoth ==
    /\ bad # << >>
    /\ res = NoRes
    /\ res' = Reduced("codex32", CODEX32_POLYMOD, poly)
    /\ resBad' = Reduced("codex32", CODEX32_POLYMOD, bad)
    /\ UNCHANGED <<poly, bad, feVars, fieldVars, hrpVars>>

NextCorrupt == CorruptSymbol \/ ReduceBoth

SpecCorrupt == InitCorrupt /\ [][NextCorrupt]_vars

----------------------------------------------------------------------------
(* HRP residues of a prefix built character by character *)

InitHrp == IdleHrp /\ IdleFe /\ IdleField /\ IdlePoly /\ IdleCorrupt

PushChar ==
    \E c \in HrpChars :
        /\ hres = NoHres
        /\ Len(hrp) + Len(c) <= MaxHrpBytes
        /\ hrp' = hrp \o c
        /\ UNCHANGED <<hres, feVars, fieldVars, polyVars, corruptVars>>

CallCodex32HrpResidue ==
    /\ hres = NoHres
    /\ hres' = HrpReduced("codex32", CODEX32_POLYMOD, hrp)
    /\ UNCHANGED <<hrp, feVars, fieldVars, polyVars, corruptVars>>

CallBech32HrpResidue ==
    /\ hres = NoHres
    /\ hres' = HrpReduced("bech32", BECH32_POLYMOD, hrp)
    /\ UNCHANGED <<hrp, feVars, fieldVars, polyVars, corruptVars>>

NextHrp ==
    \/ PushChar
    \/ CallCodex32HrpResidue
    \/ CallBech32HrpResidue

SpecHrp == InitHrp /\ [][NextHrp]_vars

----------------------------------------------------------------------------
(* Reference definitions the claims are stated with *)

\* s without its leading zeros.
StripLeadingZeros(s) ==
    IF \A k \in 1..Len(s) : s[k] = 0 THEN << >>
    ELSE LET first == CHOOSE k \in 1..Len(s) :
                          /\ s[k] # 0
                          /\ \A j \in 1..(k - 1) : s[j] = 0
         IN  SubSeq(s, first, Len(s))

\* One step of a shift register as long as its generator g: the first
\* element is the carry, the others move down, sym enters last, and
\* carry * g[i] is added to every element.
RegisterStep(acc, sym, g) ==
    LET carry == acc[1]
        moved == Tail(acc) \o << sym >>
    IN  [i \in 1..Len(g) |-> Add(moved[i], Mul(carry, g[i]))]

RECURSIVE RegisterRun(_, _, _)
RegisterRun(acc, input, g) ==
    IF input = << >> THEN acc
    ELSE RegisterRun(RegisterStep(acc, Head(input), g), Tail(input), g)

\* The residue of the shift register of exactly Len(g) elements.
RegisterResidue(input, g) ==
    StripLeadingZeros(RegisterRun([i \in 1..Len(g) |-> 0], input, g))

\* Long division of m (highest degree first) by the monic polynomial
\* x^L + sum g[i] * x^(L-i), L = Len(g): from position k on, each leading
\* coefficient is cancelled by adding its multiple of the divisor.
RECURSIVE LongDivide(_, _, _)
LongDivide(m, k, g) ==
    IF k > Len(m) - Len(g) THEN m
    ELSE LET lead == m[k]
             next == [i \in 1..Len(m) |->
                         IF i = k THEN 0
                         ELSE IF i > k /\ i <= k + Len(g)
                              THEN Add(m[i], Mul(lead, g[i - k]))
                              ELSE m[i]]
         IN  LongDivide(next, k + 1, g)

\* The remainder: the coefficients of degree below L that the division
\* leaves, leading zeros stripped.
LongDivisionRemainder(m, g) ==
    LET left == LongDivide(m, 1, g)
        from == IF Len(m) > Len(g) THEN Len(m) - Len(g) + 1 ELSE 1
    IN  StripLeadingZeros(SubSeq(left, from, Len(m)))

----------------------------------------------------------------------------
(* Claims on polymod, checked under Spec *)

\* C1: bech32_polymod returns the residue of the shift register of exactly
\* 6 elements run with the bech32 generator, leading zeros stripped.
C1_Bech32IsSixElementRegister ==
    res.gen = "bech32" => res.ret = RegisterResidue(poly, BECH32_POLYMOD)

\* C2: codex32_polymod returns the remainder of the long division of the
\* input (first symbol = highest degree) by the monic codex32 generator,
\* highest degree first, leading zeros stripped.
C2_Codex32IsLongDivision ==
    res.gen = "codex32" => res.ret = LongDivisionRemainder(poly, CODEX32_POLYMOD)

\* C2 witness: an input longer than the generator whose first two symbols
\* are nonzero has been reduced, with a nonzero remainder.
C2_Witness ==
    /\ res.gen = "codex32"
    /\ Len(poly) > 14
    /\ poly[1] # 0 /\ poly[2] # 0
    /\ res.ret # << >>

\* C10: the polynomial returned by either reduction is the final accumulator
\* without its leading zeros and nothing else: later zeros stay, a non-empty
\* result starts with a nonzero coefficient, and the result is empty exactly
\* when the accumulator is all zero, as it is for every all-zero input.
C10_ResultIsStrippedAccumulator ==
    res.gen # "none" =>
        /\ res.ret = StripLeadingZeros(res.acc)
        /\ res.ret # << >> => res.ret[1] # 0
        /\ res.ret = << >> <=> (\A i \in 1..Len(res.acc) : res.acc[i] = 0)
        /\ (\A k \in 1..Len(poly) : poly[k] = 0) => res.ret = << >>

\* C10 witness: a reduction ended with an accumulator that has leading
\* zeros and a zero after its first nonzero coefficient.
C10_Witness ==
    /\ res.gen # "none"
    /\ res.acc[1] = 0
    /\ \E i, j \in 1..Len(res.acc) : i < j /\ res.acc[i] # 0 /\ res.acc[j] = 0
    /\ Len(res.ret) < Len(res.acc)

----------------------------------------------------------------------------
(* Claim on single-symbol corruption, checked under SpecCorrupt *)

\* The positions where two sequences of the same length differ.
Differences(s, t) == {k \in 1..Len(s) : s[k] # t[k]}

\* C7: when the codex32 residue of a stream is [1], the residue of every
\* stream of the same length that differs from it in exactly one position
\* is not [1].
C7_SingleCorruptionDetected ==
    ( /\ resBad.gen = "codex32"
      /\ res.ret = << 1 >>
      /\ Len(bad) = Len(poly)
      /\ Cardinality(Differences(poly, bad)) = 1 )
    => resBad.ret # << 1 >>

\* C7 witness: a stream longer than 13 symbols with a nonzero first symbol
\* and residue [1] has been corrupted in its first position and reduced.
C7_Witness ==
    /\ resBad.gen = "codex32"
    /\ res.ret = << 1 >>
    /\ Len(poly) > 14
    /\ poly[1] # 0
    /\ Differences(poly, bad) = {1}

----------------------------------------------------------------------------
(* Claim on the HRP residues, checked under SpecHrp *)

\* The expanded sequence of the bytes s for a generator of length L, by
\* position: 1, the high three bits of each byte, 0, the low five bits of
\* each byte, L zeros.
Expanded(s, L) ==
    [k \in 1..(2 * Len(s) + 2 + L) |->
        IF k = 1 THEN 1
        ELSE IF k <= Len(s) + 1 THEN s[k - 1] \div 32
        ELSE IF k = Len(s) + 2 THEN 0
        ELSE IF k <= 2 * Len(s) + 2 THEN s[k - Len(s) - 2] % 32
        ELSE 0]

\* C8: each HRP residue is the polymod, with the same generator of length
\* L, of the expanded sequence of exactly 2 * len(s) + 2 + L coefficients.
C8_HrpResidueIsPolymodOfExpansion ==
    /\ hres.gen = "codex32" =>
        /\ Len(hres.poly_1) = 2 * Len(hrp) + 2 + 13
        /\ hres.poly_1 = Expanded(hrp, 13)
        /\ hres.ret = Codex32Polymod(Expanded(hrp, 13))
    /\ hres.gen = "bech32" =>
        /\ Len(hres.poly_1) = 2 * Len(hrp) + 2 + 6
        /\ hres.poly_1 = Expanded(hrp, 6)
        /\ hres.ret = Bech32Polymod(Expanded(hrp, 6))

\* C8 witness: the residue of a prefix of three bytes, one of them above
\* 127 and one with low bits set, has been computed with the codex32
\* generator and is not zero.
C8_Witness ==
    /\ hres.gen = "codex32"
    /\ Len(hrp) = 3
    /\ \E k \in 1..Len(hrp) : hrp[k] > 127
    /\ \E k \in 1..Len(hrp) : hrp[k] % 32 # 0
    /\ hres.ret # << >>

----------------------------------------------------------------------------
(* Claim on multiplication, checked under SpecField *)

\* The carry-less product of two bit patterns: the exclusive or of b
\* shifted left by i for every bit i set in a.
RECURSIVE ClMul(_, _)
ClMul(a, b) ==
    IF a = 0 THEN 0
    ELSE LET rest == 2 * ClMul(a \div 2, b)
         IN  IF a % 2 = 1 THEN XorBits(rest, b) ELSE rest

\* v reduced modulo x^5 + x^3 + 1 (41): from bit `bit` down to bit 5, a set
\* bit is cancelled with 41 shifted to it.
RECURSIVE ReduceFrom(_, _)
ReduceFrom(v, bit) ==
    IF bit < 5 THEN v
    ELSE IF (v \div (2 ^ bit)) % 2 = 1
         THEN ReduceFrom(XorBits(v, 41 * (2 ^ (bit - 5))), bit - 1)
         ELSE ReduceFrom(v, bit - 1)

GF32Product(a, b) == ReduceFrom(ClMul(a, b), 9)

\* C5: on field elements, mul is the carry-less product reduced modulo
\* x^5 + x^3 + 1 and lies in [0,31]; it is commutative and associative,
\* distributes over add, has identity 1 and is annihilated by 0.
C5_MulIsGF32 ==
    /\ r.op = "mul" =>
        /\ r.val = GF32Product(x, y)
        /\ r.val \in FeRange
        /\ r.val = Mul(y, x)
        /\ Mul(r.val, z) = Mul(x, Mul(y, z))
    /\ r.op = "add" =>
        Mul(z, r.val) = Add(Mul(z, x), Mul(z, y))
    /\ Mul(x, FeOne) = x
    /\ Mul(x, FeZero) = FeZero

\* C5 witness: two elements with bit 4 set, whose product needs the
\* reduction, have been multiplied.
C5_Witness ==
    /\ r.op = "mul"
    /\ x >= 16 /\ y >= 16
    /\ r.val # 0

----------------------------------------------------------------------------
(* Claims on the element interface, checked under SpecFe *)

\* The characters of the alphabet of the external interface.
InAlphabet(ch) == \E i \in 1..Len(BECH32_ALPHABET) : BECH32_ALPHABET[i] = ch

\* C3: a character that converts to an element converts back to itself, and
\* a value in 0..31 converted to its character converts back to itself.
C3_CharRoundTrip ==
    /\ out.kind = "ok" => IntoChar(out.val) = CharOf(out.ch, out.val)
    /\ (out.kind = "char" /\ out.val \in FeRange) =>
           TryFrom(out.ch) = OkFe(out.ch, out.val)

\* C4: every field element that exists holds a value in [0,31].
C4_FeInRange == fe \in FeRange

\* C6: the conversion of a character returns an element when the character
\* is in the alphabet, and otherwise the invalid-character error naming it.
C6_FailsExactlyOutsideAlphabet ==
    out.kind \in {"ok", "invalid bech32 character"} =>
        IF InAlphabet(out.ch) THEN out.kind = "ok"
        ELSE out = ErrInvalid(out.ch)

\* C9: the conversion of an element the interface gives to a character
\* never aborts and returns a character of the alphabet.
C9_IntoCharTotal ==
    /\ out.kind # "panic"
    /\ out.kind = "char" => InAlphabet(out.ch)

====
